---- MODULE Spec2Model ----
(***************************************************************************)
(* The chat relay handlers of CODE-REFLECTION.                             *)
(*                                                                         *)
(* Three variants of the same HTTP handler are modelled side by side:      *)
(*   "mcp"  src/api/chat.js        module.exports with MCP tool calls      *)
(*   "cjs"  src/unnamed/part_002   module.exports without tool calls       *)
(*   "esm"  src/unnamed/part_001   export default async function handler   *)
(* part_002 is chat.js without lines 57-183 (tool detection); the code     *)
(* before it is line for line the same, the code after it is shifted by    *)
(* 128 lines.  The Exports* actions model both; Handler* model part_001.   *)
(*                                                                         *)
(* One handler invocation is one behaviour.  An action is the code that    *)
(* runs between two suspension points (await), so the environment (tool    *)
(* endpoint, completion provider, upstream byte stream) answers in the     *)
(* action that resumes the handler.                                        *)
(*                                                                         *)
(* Text is modelled at word granularity: a string is the sequence of its   *)
(* words (joined by single spaces), String.includes is a contiguous        *)
(* sub-sequence test.  The Vocabulary holds no word that has a keyword as  *)
(* a proper substring, so for these inputs the word test is exact.         *)
(***************************************************************************)
EXTENDS Integers, Sequences, FiniteSets, TLC

\* ---------------------------------------------------------------- bounds
MaxWords == 2       \* words in the content of the last message
MaxChunks == 2      \* chunks the upstream stream delivers

\* ---------------------------------------------------------------- inputs
Variants == {"mcp", "cjs", "esm"}
Methods == {"POST", "OPTIONS", "GET"}
Undefined == "undefined"
Models == {Undefined, "qwen", "deepseek", "llama"}
Streams == {Undefined, "true", "false"}
Vocabulary == {"search", "time", "calculate", "analyze", "hi", "2+2"}

RECURSIVE SeqsUpTo(_, _)
SeqsUpTo(S, n) ==
  IF n = 0 THEN {<<>>}
  ELSE LET shorter == SeqsUpTo(S, n - 1)
       IN  shorter \cup {Append(s, x) : s \in shorter, x \in S}

Contents == SeqsUpTo(Vocabulary, MaxWords) \ {<<>>}
\* part_001 and part_002 never read the content of a message
PlainContents == {<<"hi">>, <<"time", "2+2">>}

Msg(role, content) == [role |-> role, content |-> content, isString |-> TRUE]
\* a message whose content is not a string (an array of parts, or missing)
NonStringMsg == [role |-> "user", content |-> <<>>, isString |-> FALSE]
PriorMessage == Msg("system", <<"hi">>)
Priors == {<<>>, <<PriorMessage>>}
LastMessages(contents) ==
  {Msg(r, c) : r \in {"user", "assistant"}, c \in contents} \cup {NonStringMsg}
Arrays(contents) ==
  {<<>>} \cup {Append(p, m) : p \in Priors, m \in LastMessages(contents)}

\* req.body.messages: missing, a string, or an array
MessagesValues(contents) ==
  {[kind |-> "undefined", items |-> <<>>], [kind |-> "string", items |-> <<>>]}
    \cup {[kind |-> "array", items |-> a] : a \in Arrays(contents)}

\* a sampling parameter of the body: omitted, or given with a number.
\* temperature and top_p are counted in tenths (3 is 0.3, 20 is 2.0)
Omitted == [given |-> FALSE, v |-> 0]
Given(n) == [given |-> TRUE, v |-> n]
ParamNames ==
  {"temperature", "top_p", "top_k", "max_tokens", "presence_penalty",
   "frequency_penalty"}
NoParams == [k \in ParamNames |-> Omitted]
\* the sampling parameters a caller can send
ParamSets ==
  [temperature : {Omitted, Given(-10), Given(0), Given(10), Given(20),
                  Given(30)},
   top_p : {Omitted, Given(0), Given(5)},
   top_k : {Omitted, Given(0), Given(10)},
   max_tokens : {Omitted, Given(0), Given(100)},
   presence_penalty : {Omitted, Given(0), Given(1)},
   frequency_penalty : {Omitted, Given(0), Given(1)}]

NoRequestBody ==
  [present |-> FALSE, messages |-> [kind |-> "undefined", items |-> <<>>],
   model |-> Undefined, stream |-> Undefined, params |-> NoParams]
Bodies(contents) ==
  {NoRequestBody}
    \cup [present : {TRUE}, messages : MessagesValues(contents),
          model : Models, stream : Streams, params : {NoParams}]

\* ------------------------------------------------------- the environment
\* what the tool-invocation endpoint can answer to one tools/call
ToolOutcomes ==
  { [kind |-> "reject",  status |-> 0,   message |-> "fetch failed"],
    [kind |-> "http",    status |-> 500, message |-> ""],
    [kind |-> "rpcerror", status |-> 200, message |-> "tool failed"],
    [kind |-> "rpcerror", status |-> 200, message |-> ""],
    [kind |-> "result",  status |-> 200, message |-> "tool text"],
    [kind |-> "result",  status |-> 200, message |-> ""] }

\* the error body of a non-success provider response: its raw text, whether
\* JSON.parse accepts it, and the fields the handlers look at
ErrBodies ==
  { [raw |-> "plain text", parses |-> FALSE, isNull |-> FALSE,
     faultstring |-> "", message |-> "", errorMessage |-> ""],
    [raw |-> "", parses |-> FALSE, isNull |-> FALSE,
     faultstring |-> "", message |-> "", errorMessage |-> ""],
    [raw |-> "{fault}", parses |-> TRUE, isNull |-> FALSE,
     faultstring |-> "the faultstring", message |-> "", errorMessage |-> ""],
    [raw |-> "{message}", parses |-> TRUE, isNull |-> FALSE,
     faultstring |-> "", message |-> "the message", errorMessage |-> ""],
    [raw |-> "{error:{message}}", parses |-> TRUE, isNull |-> FALSE,
     faultstring |-> "", message |-> "", errorMessage |-> "the error message"],
    [raw |-> "{}", parses |-> TRUE, isNull |-> FALSE,
     faultstring |-> "", message |-> "", errorMessage |-> ""],
    [raw |-> "null", parses |-> TRUE, isNull |-> TRUE,
     faultstring |-> "", message |-> "", errorMessage |-> ""] }
NoErrBody == CHOOSE b \in ErrBodies : b.raw = "" /\ ~b.parses

ErrorStatuses == {429, 503}
\* what fetch() to the completion provider can produce for a payload with
\* the given stream flag: a rejection, an error response, or a 200 whose
\* body is an event stream (or missing) when streaming and a JSON text (or
\* not JSON) otherwise
UpstreamOutcomes(stream) ==
  { [kind |-> "reject", status |-> 0, errBody |-> NoErrBody,
     hasBody |-> FALSE, jsonOk |-> FALSE] }
    \cup [kind : {"response"}, status : ErrorStatuses, errBody : ErrBodies,
          hasBody : {TRUE}, jsonOk : {FALSE}]
    \cup IF stream
         THEN [kind : {"response"}, status : {200}, errBody : {NoErrBody},
               hasBody : BOOLEAN, jsonOk : {FALSE}]
         ELSE [kind : {"response"}, status : {200}, errBody : {NoErrBody},
               hasBody : {TRUE}, jsonOk : BOOLEAN]
NoUpstream ==
  [kind |-> "none", status |-> 0, errBody |-> NoErrBody,
   hasBody |-> FALSE, jsonOk |-> FALSE]
NoToolOutcome == [kind |-> "none", status |-> 0, message |-> ""]

\* bytes of the upstream stream: an ASCII byte, the lead byte of a two-byte
\* UTF-8 sequence and a continuation byte
Bytes == {"61", "C3", "A9"}
\* a chunk is one byte, so that a sequence can be split between two chunks
Chunks == {<<b>> : b \in Bytes}

\* ------------------------------------------------------ the response object
NoBody == [fields |-> {}, error |-> "", message |-> ""]
ErrorOnly(e) == [fields |-> {"error"}, error |-> e, message |-> ""]
Envelope(e, m) == [fields |-> {"error", "message"}, error |-> e, message |-> m]
EnvelopeWithModel(e, m) ==
  [fields |-> {"error", "message", "model"}, error |-> e, message |-> m]
Completion == [fields |-> {"choices"}, error |-> "", message |-> ""]

NewResponse ==
  [statusCode |-> 200, headersSent |-> FALSE, sentStatus |-> 0, ended |-> 0,
   body |-> NoBody, written |-> <<>>, lateStatus |-> FALSE,
   lateWrite |-> FALSE]

\* res.status(code): sets statusCode; it reaches the client only if the
\* head of the response has not been flushed yet
Status(r, code) ==
  [r EXCEPT !.statusCode = code, !.lateStatus = @ \/ r.headersSent]
\* the head as if a status set after the first write still reached the client
FlushLatestStatus(r) ==
  [r EXCEPT !.headersSent = TRUE, !.sentStatus = r.statusCode]
\* the head goes out with the first write, end or json
Flush(r) ==
  [r EXCEPT !.headersSent = TRUE,
            !.sentStatus = IF r.headersSent THEN @ ELSE r.statusCode]
\* res.write(bytes)
Write(r, bytes) ==
  [Flush(r) EXCEPT !.written = @ \o bytes, !.lateWrite = @ \/ r.ended > 0]
\* res.end(bytes)
End(r, bytes) ==
  [Flush(r) EXCEPT !.written = @ \o bytes, !.ended = @ + 1,
                   !.lateWrite = @ \/ (r.ended > 0 /\ bytes # <<>>)]
\* res.json(body)
Json(r, body) ==
  [Flush(r) EXCEPT !.body = body, !.ended = @ + 1,
                   !.lateWrite = @ \/ r.ended > 0]

\* ------------------------------------------------------------- text helpers
WordLen(w) ==
  CASE w = "search" -> 6 [] w = "time" -> 4 [] w = "calculate" -> 9
    [] w = "analyze" -> 7 [] w = "hi" -> 2 [] w = "2+2" -> 3

\* String.includes at word granularity: the words of kw, in a row
Includes(content, kw) ==
  \E i \in 1..(Len(content) - Len(kw) + 1) :
    \A j \in 1..Len(kw) : content[i + j - 1] = kw[j]
\* content.includes(k) for some keyword k: one of the words, or one of the
\* phrases of several words
IncludesAny(content, words, phrases) ==
  \/ \E i \in 1..Len(content) : content[i] \in words
  \/ \E kw \in phrases : Includes(content, kw)

SearchWords ==
  {"search", "find", "lookup", "latest", "news", "current", "recent"}
SearchPhrases == {<<"what", "is">>}
TimeWords == {"time", "date", "when", "now", "today"}
TimePhrases == {<<"current", "time">>}
MathWords == {"calculate", "math", "compute"}
AnalysisWords == {"analyze", "sentiment", "summarize"}
AnalysisPhrases == {<<"count", "words">>}

\* /[+\-*/=]/ matches inside the word
HasOperatorChar(w) == w \in {"2+2"}
\* /[\d+\-*/().\s]/ matches inside the word
HasExprChar(w) == w \in {"2+2"}

MatchesSearch(content) == IncludesAny(content, SearchWords, SearchPhrases)
MatchesTime(content) == IncludesAny(content, TimeWords, TimePhrases)
MatchesMath(content) ==
  \/ IncludesAny(content, MathWords, {})
  \/ \E i \in 1..Len(content) : HasOperatorChar(content[i])
MatchesAnalysis(content) ==
  IncludesAny(content, AnalysisWords, AnalysisPhrases)

\* length of a word after .replace(/search|find|.../gi, '') and
\* .replace(/for|about|on/gi, '')
StripLen(w) ==
  IF w \in SearchWords \cup {"for", "about", "on"} THEN 0 ELSE WordLen(w)

RECURSIVE SumStripLen(_, _, _)
SumStripLen(content, lo, hi) ==
  IF lo > hi THEN 0
  ELSE StripLen(content[lo]) + SumStripLen(content, lo + 1, hi)

\* searchQuery.length: the words that survive the two replaces, with every
\* space between the first and the last of them; trim() drops the rest
SearchQueryLen(content) ==
  LET kept == {i \in 1..Len(content) : StripLen(content[i]) > 0}
  IN  IF kept = {} THEN 0
      ELSE LET lo == CHOOSE i \in kept : \A j \in kept : i <= j
               hi == CHOOSE i \in kept : \A j \in kept : i >= j
           IN  SumStripLen(content, lo, hi) + (hi - lo)

\* the same test with >= 2 in place of > 2
SearchQueryLongEnoughOffByOne(content) == SearchQueryLen(content) >= 2
\* searchQuery.length > 2
SearchQueryLongEnough(content) == SearchQueryLen(content) > 2

\* lastMessage.content.match(/[\d+\-*/().\s]+/) is not null: a space between
\* two words matches \s
MathMatch(content) ==
  Len(content) >= 2 \/ \E i \in 1..Len(content) : HasExprChar(content[i])

\* the chain with the time branch moved in front of the search branch
DetectToolTimeFirst(content) ==
  IF MatchesTime(content) THEN "current_time"
  ELSE IF MatchesSearch(content)
  THEN IF SearchQueryLongEnough(content) THEN "web_search" ELSE "none"
  ELSE IF MatchesMath(content)
  THEN IF MathMatch(content) THEN "calculate" ELSE "none"
  ELSE IF MatchesAnalysis(content) THEN "text_analysis"
  ELSE "none"
\* the if / else-if chain: the tool to call, or "none"
DetectTool(content) ==
  IF MatchesSearch(content)
  THEN IF SearchQueryLongEnough(content) THEN "web_search" ELSE "none"
  ELSE IF MatchesTime(content) THEN "current_time"
  ELSE IF MatchesMath(content)
  THEN IF MathMatch(content) THEN "calculate" ELSE "none"
  ELSE IF MatchesAnalysis(content) THEN "text_analysis"
  ELSE "none"

Label(tool) ==
  CASE tool = "web_search" -> "Web Search Results:"
    [] tool = "current_time" -> "Current Time:"
    [] tool = "calculate" -> "Calculation Result:"
    [] tool = "text_analysis" -> "Analysis Result:"

ToolFailed(outcome) == outcome.kind \in {"reject", "http", "badjson", "rpcerror"}
\* the message of the Error raised inside callMCPTool
ToolErrorMessage(outcome) ==
  CASE outcome.kind = "http" -> "MCP Server error: " \o ToString(outcome.status)
    [] outcome.kind = "rpcerror" ->
         IF outcome.message # "" THEN outcome.message ELSE "MCP tool error"
    [] OTHER -> outcome.message

\* callMCPTool without its try / catch: a failure is thrown to the caller
CallMCPToolRethrow(outcome) ==
  IF ToolFailed(outcome)
  THEN [threw |-> TRUE, message |-> ToolErrorMessage(outcome), text |-> <<>>]
  ELSE [threw |-> FALSE, message |-> "",
        text |-> IF outcome.message # "" THEN <<outcome.message>>
                 ELSE <<"No response from MCP tool">>]
\* callMCPTool: every failure is caught inside and becomes the returned text
CallMCPTool(outcome) ==
  IF ToolFailed(outcome)
  THEN [threw |-> FALSE, message |-> "",
        text |-> <<"Tool error:", ToolErrorMessage(outcome)>>]
  ELSE [threw |-> FALSE, message |-> "",
        text |-> IF outcome.message # "" THEN <<outcome.message>>
                 ELSE <<"No response from MCP tool">>]

\* ---------------------------------------------- provider error message
\* chat.js: parsedError.fault?.faultstring || parsedError.message || errorText
ExportsErrorMessage(b) ==
  IF b.parses /\ ~b.isNull
  THEN IF b.faultstring # "" THEN b.faultstring
       ELSE IF b.message # "" THEN b.message
       ELSE b.raw
  ELSE b.raw
\* part_001: errorData.error.message, else "Fireworks API error (S)"
DefaultErrorMessage(status) == "Fireworks API error (" \o ToString(status) \o ")"
HandlerErrorMessage(b, status) ==
  IF b.parses
  THEN IF b.isNull THEN b.raw
       ELSE IF b.errorMessage # "" THEN b.errorMessage
       ELSE DefaultErrorMessage(status)
  ELSE IF b.raw # "" THEN b.raw ELSE DefaultErrorMessage(status)

\* ------------------------------------------------------------ TextDecoder
Replacement == <<"EF", "BF", "BD">>
\* decoder.decode(value, {stream: true}) followed by the UTF-8 encoding of
\* the string in res.write: the bytes that go out and whether a lead byte
\* is held back for the next call
RECURSIVE Decode(_, _, _)
Decode(bytes, pending, out) ==
  IF bytes = <<>> THEN [out |-> out, pending |-> pending]
  ELSE LET b == Head(bytes)
       IN  IF pending
           THEN IF b = "A9"
                THEN Decode(Tail(bytes), FALSE, out \o <<"C3", "A9">>)
                ELSE Decode(bytes, FALSE, out \o Replacement)
           ELSE IF b = "61" THEN Decode(Tail(bytes), FALSE, Append(out, b))
           ELSE IF b = "C3" THEN Decode(Tail(bytes), TRUE, out)
           ELSE Decode(Tail(bytes), FALSE, out \o Replacement)

StreamingInterrupted == <<"Streaming interrupted">>

VARIABLES
  variant,           \* which handler serves the request
  req,               \* [method, body]
  apiKey,            \* process.env.FIREWORKS_API_KEY is set
  pc,                \* where the invocation is suspended
  res,               \* the response object
  keyLookups,        \* reads of process.env.FIREWORKS_API_KEY
  enhancedMessages,  \* the message list that goes upstream
  toolCalls,         \* tools/call requests sent, by tool name
  toolOutcome,       \* the answer to the tool call
  upstreamCalls,     \* requests sent to the completion provider
  response,          \* the provider's answer
  streamRead,        \* bytes read from response.body so far
  chunksRead,        \* number of chunks read
  pendingByte,       \* the TextDecoder holds the lead byte of a sequence
  readOutcome        \* how the last reader.read() settled

vars ==
  <<variant, req, apiKey, pc, res, keyLookups, enhancedMessages, toolCalls,
    toolOutcome, upstreamCalls, response, streamRead, chunksRead, pendingByte,
    readOutcome>>

\* ------------------------------------------------------------------- Init
Init ==
  /\ variant \in Variants
  /\ req \in [method : Methods,
              body : Bodies(IF variant = "mcp" THEN Contents ELSE PlainContents)]
  /\ apiKey \in BOOLEAN
  /\ pc = "start"
  /\ res = NewResponse
  /\ keyLookups = 0
  /\ enhancedMessages = <<>>
  /\ toolCalls = <<>>
  /\ toolOutcome = NoToolOutcome
  /\ upstreamCalls = <<>>
  /\ response = NoUpstream
  /\ streamRead = <<>>
  /\ chunksRead = 0
  /\ pendingByte = FALSE
  /\ readOutcome = "none"

\* the handler returns after sending r
Respond(r) ==
  /\ res' = r
  /\ pc' = "done"

\* the outer catch of chat.js / part_002
ExportsCatch(message) ==
  Respond(Json(Status(res, 500), Envelope("Internal server error", message)))

\* stream || false, and the test if (stream)
Truthy(stream) == stream = "true"

\* value || fallback: the fallback replaces an omitted value and 0
OrDefault(p, fallback) == IF p.given /\ p.v # 0 THEN p.v ELSE fallback

\* the sampling parameters of fireworksPayload in chat.js / part_002
ExportsParams(p) ==
  [temperature |-> OrDefault(p.temperature, 3),
   top_p |-> OrDefault(p.top_p, 9),
   top_k |-> OrDefault(p.top_k, 40),
   max_tokens |-> OrDefault(p.max_tokens, 8192),
   presence_penalty |-> OrDefault(p.presence_penalty, 0),
   frequency_penalty |-> OrDefault(p.frequency_penalty, 0)]

\* fetch(...) of chat.js / part_002 is issued with fireworksPayload
ExportsDispatch(messages, toolsDone) ==
  /\ upstreamCalls' =
       Append(upstreamCalls,
              [model |-> req.body.model, messages |-> messages,
               stream |-> Truthy(req.body.stream), toolsDone |-> toolsDone,
               params |-> ExportsParams(req.body.params)])
  /\ pc' = "awaitUpstream"
  /\ UNCHANGED res

\* !model || !messages || !Array.isArray(messages) || messages.length === 0
ExportsInvalid(body) ==
  \/ body.model = Undefined
  \/ body.messages.kind # "array"
  \/ body.messages.items = <<>>

\* the test with GET let through as well
MethodNotAllowedGetToo(method) == method \notin {"POST", "GET"}
\* req.method !== 'POST'
MethodNotAllowed(method) == method # "POST"

\* chat.js and part_002, from the entry to the first await
ExportsReceive ==
  /\ pc = "start"
  /\ variant \in {"mcp", "cjs"}
  /\ UNCHANGED readOutcome
  /\ UNCHANGED <<variant, req, apiKey, toolOutcome, response, streamRead,
                 chunksRead, pendingByte>>
  /\ IF req.method = "OPTIONS"
     THEN /\ Respond(End(Status(res, 200), <<>>))
          /\ UNCHANGED <<keyLookups, enhancedMessages, toolCalls, upstreamCalls>>
     ELSE IF MethodNotAllowed(req.method)
     THEN /\ Respond(Json(Status(res, 405), ErrorOnly("Method not allowed")))
          /\ UNCHANGED <<keyLookups, enhancedMessages, toolCalls, upstreamCalls>>
     ELSE
       /\ keyLookups' = keyLookups + 1
       /\ IF ~apiKey
          THEN /\ Respond(Json(Status(res, 500),
                               Envelope("Server configuration error",
                                        "API key not configured")))
               /\ UNCHANGED <<enhancedMessages, toolCalls, upstreamCalls>>
          ELSE IF ~req.body.present
          THEN /\ Respond(Json(Status(res, 400),
                               Envelope("Bad request",
                                        "Request body is missing or malformed")))
               /\ UNCHANGED <<enhancedMessages, toolCalls, upstreamCalls>>
          ELSE IF ExportsInvalid(req.body)
          THEN /\ Respond(Json(Status(res, 400),
                               Envelope("Bad request",
                                        "Missing or invalid required fields")))
               /\ UNCHANGED <<enhancedMessages, toolCalls, upstreamCalls>>
          ELSE
            LET messages == req.body.messages.items
                lastMessage == messages[Len(messages)]
            IN
            /\ enhancedMessages' = messages
            /\ IF variant = "mcp" /\ lastMessage.role = "user"
               THEN IF ~lastMessage.isString
                    THEN \* lastMessage.content.toLowerCase is not a function
                         /\ ExportsCatch("toLowerCase is not a function")
                         /\ UNCHANGED <<toolCalls, upstreamCalls>>
                    ELSE IF DetectTool(lastMessage.content) # "none"
                    THEN /\ toolCalls' =
                              Append(toolCalls, DetectTool(lastMessage.content))
                         /\ pc' = "awaitTool"
                         /\ UNCHANGED <<res, upstreamCalls>>
                    ELSE /\ ExportsDispatch(messages, 0)
                         /\ UNCHANGED toolCalls
               ELSE /\ ExportsDispatch(messages, 0)
                    /\ UNCHANGED toolCalls

\* chat.js: callMCPTool returns, the system message is pushed and the
\* payload is sent
ExportsToolResponds ==
  /\ pc = "awaitTool"
  /\ variant = "mcp"
  /\ UNCHANGED readOutcome
  /\ UNCHANGED <<variant, req, apiKey, keyLookups, toolCalls, response,
                 streamRead, chunksRead, pendingByte>>
  /\ \E outcome \in ToolOutcomes :
       LET result == CallMCPTool(outcome)
           tool == toolCalls[Len(toolCalls)]
           pushed == Append(enhancedMessages,
                            Msg("system", <<Label(tool)>> \o result.text))
       IN
       /\ toolOutcome' = outcome
       /\ IF result.threw
          THEN /\ ExportsCatch(result.message)
               /\ UNCHANGED <<enhancedMessages, upstreamCalls>>
          ELSE /\ enhancedMessages' = pushed
               /\ ExportsDispatch(pushed, 1)

\* chat.js and part_002: fetch settles; error envelope, completion JSON or
\* the start of the relay
ExportsUpstreamResponds ==
  /\ pc = "awaitUpstream"
  /\ variant \in {"mcp", "cjs"}
  /\ UNCHANGED readOutcome
  /\ UNCHANGED <<variant, req, apiKey, keyLookups, enhancedMessages, toolCalls,
                 toolOutcome, upstreamCalls, streamRead, chunksRead,
                 pendingByte>>
  /\ \E u \in UpstreamOutcomes(upstreamCalls[1].stream) :
       /\ response' = u
       /\ IF u.kind = "reject"
          THEN ExportsCatch("fetch failed")
          ELSE IF u.status # 200
          THEN Respond(Json(Status(res, u.status),
                            Envelope("API request failed",
                                     ExportsErrorMessage(u.errBody))))
          ELSE IF Truthy(req.body.stream)
          THEN IF ~u.hasBody
               THEN Respond(Json(Status(res, 500),
                                 ErrorOnly("No response body")))
               ELSE pc' = "relay" /\ UNCHANGED res
          ELSE IF u.jsonOk
          THEN Respond(Json(Status(res, 200), Completion))
          ELSE ExportsCatch("Unexpected token")

\* chat.js and part_002: reader.read() yields a chunk, res.write(value)
ExportsReadChunk ==
  /\ pc = "relay"
  /\ variant \in {"mcp", "cjs"}
  /\ chunksRead < MaxChunks
  /\ \E value \in Chunks :
       /\ streamRead' = streamRead \o value
       /\ res' = Write(res, value)
  /\ chunksRead' = chunksRead + 1
  /\ readOutcome' = "chunk"
  /\ UNCHANGED <<variant, req, apiKey, pc, keyLookups, enhancedMessages,
                 toolCalls, toolOutcome, upstreamCalls, response, pendingByte>>

\* chat.js and part_002: reader.read() yields done, res.end()
ExportsReadDone ==
  /\ pc = "relay"
  /\ variant \in {"mcp", "cjs"}
  /\ Respond(End(res, <<>>))
  /\ readOutcome' = "done"
  /\ UNCHANGED <<variant, req, apiKey, keyLookups, enhancedMessages, toolCalls,
                 toolOutcome, upstreamCalls, response, streamRead, chunksRead,
                 pendingByte>>

\* chat.js and part_002: reader.read() rejects, the inner catch answers
ExportsReadError ==
  /\ pc = "relay"
  /\ variant \in {"mcp", "cjs"}
  /\ Respond(End(Status(res, 500), StreamingInterrupted))
  /\ readOutcome' = "error"
  /\ UNCHANGED <<variant, req, apiKey, keyLookups, enhancedMessages, toolCalls,
                 toolOutcome, upstreamCalls, response, streamRead, chunksRead,
                 pendingByte>>

\* ---------------------------------------------------------------- part_001
\* the lookup with an unknown keyword passed through as it is
ModelNamePassThrough(model) ==
  IF model = "qwen" THEN "accounts/fireworks/models/qwen3-30b-a3b"
  ELSE IF model \in {Undefined, "deepseek"}
  THEN "accounts/fireworks/models/deepseek-v3-0324"
  ELSE model
\* model === "qwen" ? qwen3-30b-a3b : deepseek-v3-0324, model = "deepseek"
\* when the caller omits it
ModelName(model) ==
  IF model = "qwen" THEN "accounts/fireworks/models/qwen3-30b-a3b"
  ELSE "accounts/fireworks/models/deepseek-v3-0324"

\* stream = true when the caller omits it
HandlerStream(body) == body.stream # "false"

\* name = fallback in the destructuring: the fallback replaces an omitted
\* value only
DestructureDefault(p, fallback) == IF p.given THEN p.v ELSE fallback

\* Math.min(temperature, 2.0)
CapTemperature(t) == IF t < 20 THEN t ELSE 20

\* the sampling parameters of the body sent by part_001
HandlerParams(p) ==
  [temperature |-> CapTemperature(DestructureDefault(p.temperature, 6)),
   top_p |-> DestructureDefault(p.top_p, 10),
   top_k |-> DestructureDefault(p.top_k, 40),
   max_tokens |-> DestructureDefault(p.max_tokens, 4096),
   presence_penalty |-> 0,
   frequency_penalty |-> 0]

\* the catch of part_001: the envelope reads req.body.model
HandlerCatch(message) ==
  IF req.body.present
  THEN Respond(Json(Status(res, 500),
                    EnvelopeWithModel("Internal server error", message)))
  ELSE \* req.body.model throws inside the catch block
       /\ pc' = "crashed"
       /\ UNCHANGED res

\* !messages || !Array.isArray(messages)
HandlerInvalid(body) == body.messages.kind # "array"

\* part_001, from the entry to the first await
HandlerReceive ==
  /\ pc = "start"
  /\ variant = "esm"
  /\ UNCHANGED readOutcome
  /\ UNCHANGED <<variant, req, apiKey, enhancedMessages, toolCalls, toolOutcome,
                 response, streamRead, chunksRead, pendingByte>>
  /\ IF req.method = "OPTIONS"
     THEN /\ Respond(End(Status(res, 204), <<>>))
          /\ UNCHANGED <<keyLookups, upstreamCalls>>
     ELSE IF MethodNotAllowed(req.method)
     THEN /\ Respond(Json(Status(res, 405), ErrorOnly("Method not allowed")))
          /\ UNCHANGED <<keyLookups, upstreamCalls>>
     ELSE IF ~req.body.present
     THEN \* destructuring undefined throws
          /\ HandlerCatch("Cannot destructure property")
          /\ UNCHANGED <<keyLookups, upstreamCalls>>
     ELSE IF HandlerInvalid(req.body)
     THEN /\ Respond(Json(Status(res, 400), ErrorOnly("Invalid messages format")))
          /\ UNCHANGED <<keyLookups, upstreamCalls>>
     ELSE
       /\ keyLookups' = keyLookups + 1
       /\ IF ~apiKey
          THEN /\ Respond(Json(Status(res, 500),
                               Envelope("API configuration error",
                                        "Fireworks API key not configured")))
               /\ UNCHANGED upstreamCalls
          ELSE /\ upstreamCalls' =
                    Append(upstreamCalls,
                           [model |-> ModelName(req.body.model),
                            messages |-> req.body.messages.items,
                            stream |-> HandlerStream(req.body),
                            toolsDone |-> 0,
                            params |-> HandlerParams(req.body.params)])
               /\ pc' = "awaitUpstream"
               /\ UNCHANGED res

\* part_001: fetch settles
HandlerUpstreamResponds ==
  /\ pc = "awaitUpstream"
  /\ variant = "esm"
  /\ UNCHANGED readOutcome
  /\ UNCHANGED <<variant, req, apiKey, keyLookups, enhancedMessages, toolCalls,
                 toolOutcome, upstreamCalls, streamRead, chunksRead,
                 pendingByte>>
  /\ \E u \in UpstreamOutcomes(upstreamCalls[1].stream) :
       /\ response' = u
       /\ IF u.kind = "reject"
          THEN HandlerCatch("fetch failed")
          ELSE IF u.status # 200
          THEN HandlerCatch(HandlerErrorMessage(u.errBody, u.status))
          ELSE IF HandlerStream(req.body)
          THEN IF ~u.hasBody
               THEN HandlerCatch("Cannot read properties of null")
               ELSE pc' = "relay" /\ UNCHANGED res
          ELSE IF u.jsonOk
          THEN Respond(Json(Status(res, 200), Completion))
          ELSE HandlerCatch("Unexpected token")

\* part_001: reader.read() yields a chunk; it is decoded and written as text
HandlerReadChunk ==
  /\ pc = "relay"
  /\ variant = "esm"
  /\ chunksRead < MaxChunks
  /\ \E value \in Chunks :
       LET chunk == Decode(value, pendingByte, <<>>)
       IN  /\ streamRead' = streamRead \o value
           /\ res' = Write(res, chunk.out)
           /\ pendingByte' = chunk.pending
  /\ chunksRead' = chunksRead + 1
  /\ readOutcome' = "chunk"
  /\ UNCHANGED <<variant, req, apiKey, pc, keyLookups, enhancedMessages,
                 toolCalls, toolOutcome, upstreamCalls, response>>

\* part_001: reader.read() yields done; finally res.end()
HandlerReadDone ==
  /\ pc = "relay"
  /\ variant = "esm"
  /\ Respond(End(res, <<>>))
  /\ readOutcome' = "done"
  /\ UNCHANGED <<variant, req, apiKey, keyLookups, enhancedMessages, toolCalls,
                 toolOutcome, upstreamCalls, response, streamRead, chunksRead,
                 pendingByte>>

\* part_001: reader.read() rejects; the error is logged, finally res.end()
HandlerReadError ==
  /\ pc = "relay"
  /\ variant = "esm"
  /\ Respond(End(res, <<>>))
  /\ readOutcome' = "error"
  /\ UNCHANGED <<variant, req, apiKey, keyLookups, enhancedMessages, toolCalls,
                 toolOutcome, upstreamCalls, response, streamRead, chunksRead,
                 pendingByte>>

Next ==
  \/ ExportsReceive
  \/ ExportsToolResponds
  \/ ExportsUpstreamResponds
  \/ ExportsReadChunk
  \/ ExportsReadDone
  \/ ExportsReadError
  \/ HandlerReceive
  \/ HandlerUpstreamResponds
  \/ HandlerReadChunk
  \/ HandlerReadDone
  \/ HandlerReadError

Spec == Init /\ [][Next]_vars

\* valid requests that differ in their sampling parameters
InitParams ==
  /\ variant \in Variants
  /\ req \in [method : {"POST"},
              body : [present : {TRUE},
                      messages : {[kind |-> "array",
                                   items |-> <<Msg("user", <<"time">>)>>]},
                      model : {"qwen"}, stream : {"true", "false"},
                      params : ParamSets]]
  /\ apiKey = TRUE
  /\ pc = "start"
  /\ res = NewResponse
  /\ keyLookups = 0
  /\ enhancedMessages = <<>>
  /\ toolCalls = <<>>
  /\ toolOutcome = NoToolOutcome
  /\ upstreamCalls = <<>>
  /\ response = NoUpstream
  /\ streamRead = <<>>
  /\ chunksRead = 0
  /\ pendingByte = FALSE
  /\ readOutcome = "none"

SpecParams == InitParams /\ [][Next]_vars

TypeOK ==
  /\ pc \in {"start", "awaitTool", "awaitUpstream", "relay", "done", "crashed"}
  /\ res.ended \in 0..2
  /\ Len(toolCalls) <= 1
  /\ readOutcome \in {"none", "chunk", "done", "error"}

\* ------------------------------------------------------------ the request
IsPost == req.method = "POST"
Items == req.body.messages.items
LastMessage == Items[Len(Items)]
\* the body passes the validation of chat.js
ValidForExports == req.body.present /\ ~ExportsInvalid(req.body)
\* the last message is a user message with text content
LastIsUserText ==
  ValidForExports /\ LastMessage.role = "user" /\ LastMessage.isString
Answered == pc = "done"
\* the provider accepted the request and the handler relays its byte stream
Relaying ==
  /\ response.kind = "response" /\ response.status = 200 /\ response.hasBody
  /\ upstreamCalls # <<>> /\ upstreamCalls[1].stream

\* the keyword groups in the order of the else-if chain of chat.js
Groups == {"search", "time", "math", "analysis"}
Rank(g) ==
  CASE g = "search" -> 1 [] g = "time" -> 2 [] g = "math" -> 3
    [] g = "analysis" -> 4
ToolOf(g) ==
  CASE g = "search" -> "web_search" [] g = "time" -> "current_time"
    [] g = "math" -> "calculate" [] g = "analysis" -> "text_analysis"
MatchesGroup(g, content) ==
  CASE g = "search" -> MatchesSearch(content)
    [] g = "time" -> MatchesTime(content)
    [] g = "math" -> MatchesMath(content)
    [] g = "analysis" -> MatchesAnalysis(content)
MatchingGroups(content) == {g \in Groups : MatchesGroup(g, content)}
\* the group of lowest rank among those that match
FirstOf(groups) == CHOOSE g \in groups : \A h \in groups : Rank(g) <= Rank(h)

IsPrefix(s, t) == Len(s) <= Len(t) /\ SubSeq(t, 1, Len(s)) = s

\* ------------------------------------------------------------------ claims

\* C1: a request whose method is neither POST nor OPTIONS is answered 405 in
\* every variant, and no credential lookup, tool call or upstream call is made.
C1_MethodNotAllowed ==
  req.method \notin {"POST", "OPTIONS"} =>
    /\ keyLookups = 0 /\ toolCalls = <<>> /\ upstreamCalls = <<>>
    /\ pc \in {"start", "done"}
    /\ Answered => res.sentStatus = 405 /\ res.ended = 1
C1_Witness ==
  /\ req.method = "GET" /\ Answered /\ res.sentStatus = 405
  /\ apiKey /\ ValidForExports

\* C2: a POST whose messages is absent or not an array (a POST without a body
\* included) is answered 400 with an error field, whatever the credential
\* configuration.
C2_InvalidMessages400 ==
  (IsPost /\ req.body.messages.kind # "array" /\ pc # "start") =>
    /\ Answered
    /\ res.sentStatus = 400
    /\ "error" \in res.body.fields

\* C3: a POST handled without the credential is answered 500 whatever the
\* body holds, and no upstream call is made.
C3_MissingCredential500 ==
  (IsPost /\ ~apiKey /\ pc # "start") =>
    /\ Answered
    /\ res.sentStatus = 500
    /\ upstreamCalls = <<>>

\* C4: a POST whose messages is an empty array is rejected with 400 and never
\* forwarded; in the variants that require model, so is a POST without model.
\* Stated where the credential is configured: without it the credential
\* check of C3 answers first.
C4_EmptyOrModelless400 ==
  (/\ IsPost /\ apiKey /\ req.body.present /\ pc # "start"
   /\ \/ req.body.messages.kind = "array" /\ Items = <<>>
      \/ variant \in {"mcp", "cjs"} /\ req.body.model = Undefined) =>
    /\ Answered
    /\ res.sentStatus = 400
    /\ upstreamCalls = <<>>

\* C5: when the provider answers with a non-success status S, streaming or
\* not, the response has status S and an envelope with error and message,
\* the message coming from the parsed error body when it parses and from the
\* raw text otherwise.
C5_UpstreamErrorSurfaced ==
  (response.kind = "response" /\ response.status # 200) =>
    /\ Answered
    /\ res.sentStatus = response.status
    /\ {"error", "message"} \subseteq res.body.fields
    /\ LET b == response.errBody
       IN  IF b.parses
           THEN res.body.message
                  \in {b.faultstring, b.message, b.errorMessage, b.raw}
           ELSE res.body.message = b.raw

\* C6 as claimed: a failed tool call ends the request with a 500 and the
\* conversation is not forwarded to the completion provider.
C6_ToolFailureIs500 ==
  (variant = "mcp" /\ ToolFailed(toolOutcome)) =>
    /\ upstreamCalls = <<>>
    /\ Answered /\ res.sentStatus = 500

\* C6 amended: a failed tool call is caught inside callMCPTool; its text
\* "Tool error: <message>" is appended as the system message and the
\* conversation is forwarded to the completion provider.
C6_ToolFailureForwarded ==
  (variant = "mcp" /\ ToolFailed(toolOutcome)) =>
    /\ Len(upstreamCalls) = 1
    /\ upstreamCalls[1].messages =
         Append(Items, Msg("system", <<Label(toolCalls[1]), "Tool error:",
                                       ToolErrorMessage(toolOutcome)>>))
C6_Witness ==
  /\ variant = "mcp" /\ toolOutcome.kind = "http"
  /\ Answered /\ res.sentStatus = 200 /\ res.body = Completion

\* C7: when the last user message matches two or more keyword groups, only
\* the tool of the first matching group in the order search, time,
\* arithmetic, analysis can be invoked, at most one tool call is made and at
\* most one system message is appended.
C7_FirstGroupOnly ==
  (variant = "mcp" /\ IsPost /\ LastIsUserText /\ pc # "start") =>
    LET groups == MatchingGroups(LastMessage.content)
    IN  Cardinality(groups) >= 2 =>
          /\ Len(toolCalls) <= 1
          /\ \A i \in 1..Len(toolCalls) : toolCalls[i] = ToolOf(FirstOf(groups))
          /\ Len(enhancedMessages) <= Len(Items) + 1
          /\ \A i \in 1..Len(upstreamCalls) :
               /\ Len(upstreamCalls[i].messages) <= Len(Items) + 1
               /\ SubSeq(upstreamCalls[i].messages, 1, Len(Items)) = Items
C7_Witness ==
  /\ variant = "mcp" /\ IsPost /\ LastIsUserText
  /\ MatchingGroups(LastMessage.content) = {"time", "math"}
  /\ toolCalls = <<"current_time">>
  /\ Len(upstreamCalls) = 1
  /\ Len(upstreamCalls[1].messages) = Len(Items) + 1

\* what the system message of a tool call holds
HoldsToolText(message, tool) ==
  /\ message.role = "system"
  /\ message.content[1] = Label(tool)
  /\ (toolOutcome.kind = "result" /\ toolOutcome.message # "") =>
       message.content = <<Label(tool), toolOutcome.message>>

\* C8 as claimed: whenever the last user message matches a group, exactly one
\* tool call completes before the upstream call and one system message
\* follows the original messages; otherwise nothing is called or appended.
C8_AlwaysAugmented ==
  (variant = "mcp" /\ upstreamCalls # <<>>) =>
    LET groups == IF LastIsUserText THEN MatchingGroups(LastMessage.content)
                  ELSE {}
    IN  IF groups # {}
        THEN /\ toolCalls = <<ToolOf(FirstOf(groups))>>
             /\ upstreamCalls[1].toolsDone = 1
             /\ Len(upstreamCalls[1].messages) = Len(Items) + 1
             /\ SubSeq(upstreamCalls[1].messages, 1, Len(Items)) = Items
             /\ HoldsToolText(upstreamCalls[1].messages[Len(Items) + 1],
                              toolCalls[1])
        ELSE toolCalls = <<>> /\ upstreamCalls[1].messages = Items

\* the first of the matching groups calls its tool: search only with a query
\* of more than two characters, arithmetic only when the content holds an
\* expression
ToolIsDue(groups, content) ==
  /\ groups # {}
  /\ FirstOf(groups) = "search" => SearchQueryLen(content) > 2
  /\ FirstOf(groups) = "math" => MathMatch(content)

\* C8 amended: the tool of the first matching group is called exactly once
\* before the upstream call, and its system message follows the original
\* messages, unless that group is search and the extracted query has at most
\* two characters or it is arithmetic and the content holds no expression;
\* then, as when no group matches or the last message is not a user message,
\* no tool is called and the messages go upstream unchanged.
C8_AugmentedWhenDue ==
  (variant = "mcp" /\ upstreamCalls # <<>>) =>
    LET groups == IF LastIsUserText THEN MatchingGroups(LastMessage.content)
                  ELSE {}
    IN  IF ToolIsDue(groups, LastMessage.content)
        THEN /\ toolCalls = <<ToolOf(FirstOf(groups))>>
             /\ upstreamCalls[1].toolsDone = 1
             /\ Len(upstreamCalls[1].messages) = Len(Items) + 1
             /\ SubSeq(upstreamCalls[1].messages, 1, Len(Items)) = Items
             /\ HoldsToolText(upstreamCalls[1].messages[Len(Items) + 1],
                              toolCalls[1])
        ELSE toolCalls = <<>> /\ upstreamCalls[1].messages = Items
C8_Witness ==
  /\ variant = "mcp" /\ LastIsUserText
  /\ LastMessage.content = <<"search", "hi">>
  /\ toolCalls = <<>>
  /\ Len(upstreamCalls) = 1 /\ upstreamCalls[1].messages = Items
  /\ Answered /\ res.sentStatus = 200

\* C9: what has been written to a streamed response is always a prefix of
\* what has been read from the upstream, and equals it once the response is
\* finished, also when the upstream read fails part-way.
C9_RelayIsVerbatim ==
  Relaying =>
    /\ IsPrefix(res.written, streamRead)
    /\ Answered => res.written = streamRead

\* C10: no handler invocation ends with an exception escaping the handler.
C10_NothingEscapes == pc # "crashed"

\* C11: every response sent with an error status (400, 405, 500 or a
\* forwarded upstream error status) has a JSON body with both an error and a
\* message.
C11_ErrorEnvelope ==
  (Answered /\ res.sentStatus \in {400, 405, 500} \cup ErrorStatuses) =>
    {"error", "message"} \subseteq res.body.fields

\* C12: in the handler that resolves model keywords (part_001) the model sent
\* upstream is a function of the request's model alone: "qwen" gives
\* qwen3-30b-a3b, every other value, omitted included, gives the default
\* deepseek-v3-0324.
C12_ModelResolution ==
  (variant = "esm" /\ upstreamCalls # <<>>) =>
    /\ Len(upstreamCalls) = 1
    /\ req.body.model = "qwen" =>
         upstreamCalls[1].model = "accounts/fireworks/models/qwen3-30b-a3b"
    /\ req.body.model # "qwen" =>
         upstreamCalls[1].model = "accounts/fireworks/models/deepseek-v3-0324"
C12_Witness ==
  /\ variant = "esm" /\ req.body.model = "llama" /\ Answered
  /\ upstreamCalls # <<>>
  /\ upstreamCalls[1].model = "accounts/fireworks/models/deepseek-v3-0324"

\* the sampling parameters of the request and of the payload sent upstream
Asked == req.body.params
Sent == upstreamCalls[1].params
\* what the handler makes of a temperature
Normalized(t) ==
  IF variant = "esm" THEN HandlerParams([NoParams EXCEPT !.temperature = t]).temperature
  ELSE ExportsParams([NoParams EXCEPT !.temperature = t]).temperature

\* C13: a temperature the caller supplies is clamped to [0, 2]: unchanged
\* inside the range (0 and 2 included), 2 above it, 0 below it, and
\* normalizing the value sent changes nothing.
C13_TemperatureClamped ==
  (upstreamCalls # <<>> /\ Asked.temperature.given) =>
    LET t == Asked.temperature.v
    IN  /\ (0 <= t /\ t <= 20) => Sent.temperature = t
        /\ t > 20 => Sent.temperature = 20
        /\ t < 0 => Sent.temperature = 0
        /\ Normalized(Given(Sent.temperature)) = Sent.temperature

\* C14: every sampling parameter the caller supplies, 0 included, is the
\* value sent upstream for it (for temperature: every value of the accepted
\* range); a default is used only for an omitted one.
C14_SuppliedValuesSent ==
  upstreamCalls # <<>> =>
    \A k \in ParamNames :
      (Asked[k].given /\ (k = "temperature" => Asked[k].v \in 0..20)) =>
        Sent[k] = Asked[k].v

\* the body passes the validation of the handler that received it
Valid ==
  /\ req.body.present
  /\ IF variant = "esm" THEN ~HandlerInvalid(req.body)
     ELSE ~ExportsInvalid(req.body)

\* C15: an invocation issues at most one request to the completion provider:
\* exactly one when the method is POST, the credential is configured and
\* validation passes, none when it is answered as OPTIONS, 405, 400 or the
\* missing-credential 500.
C15_OneUpstreamRequest ==
  /\ Len(upstreamCalls) <= 1
  /\ Answered =>
       IF IsPost /\ apiKey /\ Valid
       THEN Len(upstreamCalls) = 1
       ELSE Len(upstreamCalls) = 0

\* the relay of a streamed response is over
RelayOver == Relaying /\ Answered
StreamFailed == RelayOver /\ readOutcome = "error"

\* C16: when the upstream stream fails after a 2xx upstream response in
\* streaming mode the client sees status 200 in every case, on the first read
\* as after relayed chunks, and the connection is closed; it is closed as well
\* when the stream ends normally.
C16_StreamFailureKeeps200 ==
  /\ RelayOver => res.ended > 0
  /\ StreamFailed => res.sentStatus = 200

\* C16, amended: the connection is closed in every case; the client sees 200
\* when the stream ends normally, when it fails after a relayed chunk, and in
\* part_001 also when the first read fails; in chat.js and part_002 a failure
\* of the first read is answered with 500 and the text 'Streaming
\* interrupted'.
C16_StreamFailureStatus ==
  /\ RelayOver => res.ended > 0
  /\ (RelayOver /\ readOutcome = "done") => res.sentStatus = 200
  /\ StreamFailed =>
       IF variant = "esm" \/ chunksRead > 0
       THEN res.sentStatus = 200
       ELSE res.sentStatus = 500 /\ res.written = StreamingInterrupted
C16_Witness ==
  /\ StreamFailed /\ variant = "mcp" /\ chunksRead = 0
  /\ res.sentStatus = 500 /\ res.ended = 1

\* the invocation is over: the handler returned or threw
Over == pc \in {"done", "crashed"}

\* C17: on every execution path the response is terminated exactly once,
\* nothing is written after it has been terminated, and no status or header
\* is set after the first body chunk has been written.
C17_TerminatedOnce ==
  /\ res.ended <= 1
  /\ ~res.lateWrite
  /\ ~res.lateStatus
  /\ Over => res.ended = 1

====
